---- MODULE Spec2Model ----
(***************************************************************************)
(* Shape- and index-level model of models/cgnet.py (CascadedGaze).         *)
(*                                                                         *)
(* A tensor shape is the 4-tuple <<b, c, h, w>>; Err stands for the        *)
(* exception the tensor framework raises (channel mismatch, kernel larger  *)
(* than the feature map, shapes that do not broadcast).                    *)
(***************************************************************************)
EXTENDS Integers, Sequences, FiniteSets, TLC

VARIABLES net, blk, res, gate, shuf

vars == <<net, blk, res, gate, shuf>>

(* ---------------------------- bounds ----------------------------------- *)
MaxDim == 65
MaxB == 1
MaxImgChannel == 2

(* ----------------------- tensor-framework primitives ------------------- *)
Err == <<>>

Idle == [pc |-> "idle"]

RECURSIVE Pow2(_)
Pow2(n) == IF n = 0 THEN 1 ELSE 2 * Pow2(n - 1)

Reverse(s) == [k \in 1..Len(s) |-> s[Len(s) + 1 - k]]

\* output length of a convolution along one axis (dilation 1)
ConvOut(s, k, stride, padding) == ((s + 2 * padding - k) \div stride) + 1

\* nn.Conv2d(in_channels, out_channels, kernel_size, stride, padding) on a shape
Conv2d(x, cin, cout, k, stride, padding) ==
    IF x = Err THEN Err
    ELSE IF x[2] # cin THEN Err
    ELSE IF x[3] + 2 * padding < k \/ x[4] + 2 * padding < k THEN Err
    ELSE <<x[1], cout, ConvOut(x[3], k, stride, padding), ConvOut(x[4], k, stride, padding)>>

\* one axis of a broadcast: equal sizes, or one of them is 1
BDim(a, b) == IF a = b THEN a ELSE IF a = 1 THEN b ELSE IF b = 1 THEN a ELSE 0

\* shape of an element-wise binary operation (x + y, x * y) with broadcasting
Broadcast(a, b) ==
    IF a = Err \/ b = Err THEN Err
    ELSE IF \E d \in 1..4 : BDim(a[d], b[d]) = 0 THEN Err
    ELSE [d \in 1..4 |-> BDim(a[d], b[d])]

\* x.chunk(2, dim=1): sizes of the chunks along the channel axis
ChunkSizes(C) ==
    LET size == (C + 1) \div 2
    IN  IF C <= size THEN <<C>> ELSE <<size, C - size>>

\* a, b = x.chunk(2, dim=1): the two shapes, Err when there are not two chunks
Chunk2(x) ==
    IF x = Err THEN Err
    ELSE LET cs == ChunkSizes(x[2])
         IN  IF Len(cs) # 2 THEN Err
             ELSE << <<x[1], cs[1], x[3], x[4]>>, <<x[1], cs[2], x[3], x[4]>> >>

\* torch.cat(list, dim=1)
RECURSIVE Cat(_)
Cat(ts) ==
    IF \E k \in 1..Len(ts) : ts[k] = Err THEN Err
    ELSE IF Len(ts) = 1 THEN ts[1]
    ELSE LET r == Cat(Tail(ts))
         IN  IF r = Err THEN Err
             ELSE IF ts[1][1] # r[1] \/ ts[1][3] # r[3] \/ ts[1][4] # r[4] THEN Err
             ELSE <<r[1], ts[1][2] + r[2], r[3], r[4]>>

\* nn.AdaptiveAvgPool2d(1)
AdaptiveAvgPool1(x) == IF x = Err THEN Err ELSE <<x[1], x[2], 1, 1>>

(* ------------------------------ layers --------------------------------- *)
\* LayerNorm2d(channels): weight.view(1, C, 1, 1) needs C = channels
LayerNorm2d(x, channels) ==
    IF x = Err THEN Err ELSE IF x[2] # channels THEN Err ELSE x

\* SimpleGate.forward on shapes
SimpleGateShape(x) ==
    LET ch == Chunk2(x)
    IN  IF ch = Err THEN Err ELSE Broadcast(ch[1], ch[2])

\* CustomPixelShuffle.forward on shapes
PixelShuffleShape(x, r) ==
    IF x = Err THEN Err
    ELSE IF x[2] % (r * r) # 0 THEN Err
    ELSE <<x[1], x[2] \div (r * r), x[3] * r, x[4] * r>>

\* depthwise_separable_conv(nin, nout, kernel_size, padding, stide).forward
depthwise_separable_conv(x, nin, nout, kernel_size, padding, stide) ==
    LET d == Conv2d(x, nin, nin, kernel_size, stide, padding)
    IN  Conv2d(d, nin, nout, 1, 1, 0)

\* UpsampleWithFlops(size=(h, w), mode='nearest')
Upsample(x, h, w) == IF x = Err THEN Err ELSE <<x[1], x[2], h, w>>

\* one iteration of GlobalContextExtractor.forward: x = gelu(conv(x))
GCEStep(x, c, kernel_size, stride) ==
    depthwise_separable_conv(x, c, c, kernel_size, 0, stride)

\* GlobalContextExtractor.forward: the list of outputs, Err if a conv raises
RECURSIVE GCEForward(_, _, _, _)
GCEForward(x, c, kernel_sizes, strides) ==
    IF Len(kernel_sizes) = 0 \/ Len(strides) = 0 THEN <<>>
    ELSE LET y == GCEStep(x, c, kernel_sizes[1], strides[1])
         IN  IF y = Err THEN <<Err>>
             ELSE <<y>> \o GCEForward(y, c, Tail(kernel_sizes), Tail(strides))

(* -------------------------- CascadedGazeBlock -------------------------- *)
DW_Expand == 2
FFN_Expand == 2

\* the extractor's default kernel sizes [3, 3, 5] in place of the block's
GCE_kernel_sizes_default(GCE_Conv) == <<3, 3, 5>>

GCE_kernel_sizes(GCE_Conv) == IF GCE_Conv = 3 THEN <<2, 4, 4>> ELSE <<3, 3>>

GCE_strides(GCE_Conv) == IF GCE_Conv = 3 THEN <<2, 4, 4>> ELSE <<2, 3>>

dw_channel(c) == c * DW_Expand

\* dw_channel * 2 for every GCE_Conv
fused_channels_two(c, GCE_Conv) == dw_channel(c) * 2

\* in_channels of sca's convolution and of project_out
fused_channels(c, GCE_Conv) ==
    IF GCE_Conv = 3 THEN (dw_channel(c) * 5) \div 2 ELSE dw_channel(c) * 2

\* x = gelu(conv2(conv1(norm1(inp))))
BlockStem(inp, c) ==
    LET n == LayerNorm2d(inp, c)
        c1 == Conv2d(n, c, dw_channel(c), 1, 1, 0)
    IN  Conv2d(c1, dw_channel(c), dw_channel(c), 3, 1, 1)

\* x_1 + x_2, the input of the GlobalContextExtractor
GCEInput(x) ==
    LET ch == Chunk2(x)
    IN  IF ch = Err THEN Err ELSE Broadcast(ch[1], ch[2])

\* number of outputs the forward unpacks: x1, x2, x3 or x1, x2
GCEUnpack(GCE_Conv) == IF GCE_Conv = 3 THEN 3 ELSE 2

\* torch.cat([x, upsample(x1), upsample(x2) (, upsample(x3))], dim=1)
RangeFusion(x, outs, GCE_Conv, h, w) ==
    IF x = Err THEN Err
    ELSE IF Len(outs) # GCEUnpack(GCE_Conv) THEN Err
    ELSE IF \E k \in 1..Len(outs) : outs[k] = Err THEN Err
    ELSE Cat(<<x>> \o [k \in 1..Len(outs) |-> Upsample(outs[k], h, w)])

\* x = project_out(sca(x) * x)
AttendProject(x, c, GCE_Conv) ==
    LET f == fused_channels(c, GCE_Conv)
        a == Conv2d(AdaptiveAvgPool1(x), f, f, 1, 1, 0)
    IN  Conv2d(Broadcast(a, x), f, c, 1, 1, 0)

\* beta, gamma: nn.Parameter of shape (1, c, 1, 1)
ScaleShape(c) == <<1, c, 1, 1>>

\* conv5(sg(conv4(norm2(y))))
FFN(y, c) ==
    LET ffn_channel == FFN_Expand * c
        x4 == Conv2d(LayerNorm2d(y, c), c, ffn_channel, 1, 1, 0)
    IN  Conv2d(SimpleGateShape(x4), ffn_channel \div 2, c, 1, 1, 0)

\* y + x * scale
ScaledResidual(y, x, c) == Broadcast(y, Broadcast(x, ScaleShape(c)))

\* CascadedGazeBlock.forward on shapes
CascadedGazeBlock(inp, c, GCE_Conv) ==
    IF inp = Err THEN Err
    ELSE LET x0 == BlockStem(inp, c)
             outs == GCEForward(GCEInput(x0), c, GCE_kernel_sizes(GCE_Conv), GCE_strides(GCE_Conv))
             x1 == AttendProject(RangeFusion(x0, outs, GCE_Conv, inp[3], inp[4]), c, GCE_Conv)
             y == ScaledResidual(inp, x1, c)
         IN  ScaledResidual(y, FFN(y, c), c)

\* NAFBlock0.forward on shapes
NAFBlock0(inp, c) ==
    IF inp = Err THEN Err
    ELSE LET dw == c * DW_Expand
             c1 == Conv2d(LayerNorm2d(inp, c), c, dw, 1, 1, 0)
             c2 == Conv2d(c1, dw, dw, 3, 1, 1)
             g == SimpleGateShape(c2)
             a == Conv2d(AdaptiveAvgPool1(g), dw \div 2, dw \div 2, 1, 1, 0)
             x3 == Conv2d(Broadcast(g, a), dw \div 2, c, 1, 1, 0)
             y == ScaledResidual(inp, x3, c)
         IN  ScaledResidual(y, FFN(y, c), c)

\* nn.Sequential of num CascadedGazeBlock(chan, GCE_Conv)
RECURSIVE EncoderSeq(_, _, _, _)
EncoderSeq(x, num, chan, GCE_Conv) ==
    IF num = 0 THEN x
    ELSE EncoderSeq(CascadedGazeBlock(x, chan, GCE_Conv), num - 1, chan, GCE_Conv)

\* nn.Sequential of num NAFBlock0(chan)
RECURSIVE NAFSeq(_, _, _)
NAFSeq(x, num, chan) ==
    IF num = 0 THEN x ELSE NAFSeq(NAFBlock0(x, chan), num - 1, chan)

(* ------------------------- CascadedGaze.__init__ ----------------------- *)
width == 60
middle_blk_num == 10
enc_blk_nums == <<2, 2, 4, 6>>
dec_blk_nums == <<2, 2, 2, 2>>
GCE_CONVS_nums == <<3, 3, 2, 2>>

\* self.encoders[i]: num blocks of CascadedGazeBlock(chan, GCE_Conv); chan doubles per stage
encoders ==
    [i \in 1..Len(enc_blk_nums) |->
        [num |-> enc_blk_nums[i], chan |-> width * Pow2(i - 1), GCE_Conv |-> GCE_CONVS_nums[i]]]

\* self.downs[i] = nn.Conv2d(chan, 2 * chan, 2, 2)
downs == [i \in 1..Len(enc_blk_nums) |-> [cin |-> encoders[i].chan, cout |-> 2 * encoders[i].chan]]

\* chan after the encoder loop
middle_chan == width * Pow2(Len(enc_blk_nums))

\* chan at the top of decoder iteration i (halved once per earlier iteration)
RECURSIVE dec_chan_in(_)
dec_chan_in(i) == IF i = 1 THEN middle_chan ELSE dec_chan_in(i - 1) \div 2

\* self.ups[i] = Sequential(Conv2d(chan, chan * 2, 1, bias=False), CustomPixelShuffle(2))
ups == [i \in 1..Len(dec_blk_nums) |-> [cin |-> dec_chan_in(i), cout |-> dec_chan_in(i) * 2]]

\* self.decoders[i]: num blocks of NAFBlock0(chan // 2)
decoders == [i \in 1..Len(dec_blk_nums) |-> [num |-> dec_blk_nums[i], chan |-> dec_chan_in(i) \div 2]]

padder_size == Pow2(Len(encoders))

(* ---------------------- padding and cropping --------------------------- *)
\* A spatial tensor keeps, beside its shape, where each row and column comes
\* from: rows[i] = n means row i is input row n, rows[i] = 0 means row i is the
\* constant fill; element (i, j) is input element (rows[i], cols[j]) when both
\* are non-zero and the fill value otherwise.
Zeros(n) == [k \in 1..n |-> 0]

Image(shape) ==
    [shape |-> shape, rows |-> [k \in 1..shape[3] |-> k], cols |-> [k \in 1..shape[4] |-> k]]

\* F.pad(x, (left, right, top, bottom)), default mode 'constant', value 0
F_pad(t, left, right, top, bottom) ==
    [shape |-> <<t.shape[1], t.shape[2], t.shape[3] + top + bottom, t.shape[4] + left + right>>,
     rows |-> Zeros(top) \o t.rows \o Zeros(bottom),
     cols |-> Zeros(left) \o t.cols \o Zeros(right)]

\* F.pad(..., mode='replicate'): the border row / column repeated
F_pad_replicate(t, left, right, top, bottom) ==
    [shape |-> <<t.shape[1], t.shape[2], t.shape[3] + top + bottom, t.shape[4] + left + right>>,
     rows |-> [k \in 1..top |-> t.rows[1]] \o t.rows \o [k \in 1..bottom |-> t.rows[Len(t.rows)]],
     cols |-> [k \in 1..left |-> t.cols[1]] \o t.cols \o [k \in 1..right |-> t.cols[Len(t.cols)]]]

\* without the outer % padder_size
mod_pad_always(s) == padder_size - (s % padder_size)

\* (self.padder_size - s % self.padder_size) % self.padder_size
mod_pad(s) == (padder_size - (s % padder_size)) % padder_size

\* padding placed before the image: F.pad(x, (mod_pad_w, 0, mod_pad_h, 0))
check_image_size_topleft(t) == F_pad(t, mod_pad(t.shape[4]), 0, mod_pad(t.shape[3]), 0)

\* padding with copies of the border row / column
check_image_size_replicate(t) == F_pad_replicate(t, 0, mod_pad(t.shape[4]), 0, mod_pad(t.shape[3]))

\* CascadedGaze.check_image_size
check_image_size(t) == F_pad(t, 0, mod_pad(t.shape[4]), 0, mod_pad(t.shape[3]))

\* x[:, :, :H, :W]
Crop(t, H, W) ==
    LET h == IF H < t.shape[3] THEN H ELSE t.shape[3]
        w == IF W < t.shape[4] THEN W ELSE t.shape[4]
    IN  [shape |-> <<t.shape[1], t.shape[2], h, w>>,
         rows |-> SubSeq(t.rows, 1, h),
         cols |-> SubSeq(t.cols, 1, w)]

\* x + inp: the sum at (i, j) carries the padded input's element (i, j)
AddInput(x, t) ==
    IF Broadcast(x, t.shape) = Err THEN Err
    ELSE [shape |-> Broadcast(x, t.shape), rows |-> t.rows, cols |-> t.cols]

(* ------------------------ CascadedGaze.forward ------------------------- *)
\* CascadedGaze(img_channel) applied to an input of shape (B, C, H, W)
NetInit ==
    \E ic \in 1..MaxImgChannel, B \in 1..MaxB, C \in 1..MaxImgChannel,
       H \in 1..MaxDim, W \in 1..MaxDim :
        net = [pc |-> "start", img_channel |-> ic, B |-> B, C |-> C, H |-> H, W |-> W,
               inp |-> Image(<<B, C, H, W>>), x |-> <<>>, encs |-> <<>>, i |-> 0,
               ret |-> <<>>]

\* a raised exception ends the forward pass
Raise(where) == net' = [net EXCEPT !.pc = "error", !.x = Err, !.i = where]

\* inp = self.check_image_size(inp)
CheckImageSize ==
    /\ UNCHANGED <<blk, res, gate, shuf>>
    /\ net.pc = "start"
    /\ net' = [net EXCEPT !.pc = "intro", !.inp = check_image_size(net.inp)]

\* x = self.intro(inp)
Intro ==
    /\ UNCHANGED <<blk, res, gate, shuf>>
    /\ net.pc = "intro"
    /\ LET x == Conv2d(net.inp.shape, net.img_channel, width, 3, 1, 1)
       IN  IF x = Err THEN Raise(0)
           ELSE net' = [net EXCEPT !.pc = "encoder", !.x = x, !.encs = <<>>, !.i = 1]

\* x = encoder(x); encs.append(x)
Encoder ==
    /\ UNCHANGED <<blk, res, gate, shuf>>
    /\ net.pc = "encoder"
    /\ LET e == encoders[net.i]
           x == EncoderSeq(net.x, e.num, e.chan, e.GCE_Conv)
       IN  IF x = Err THEN Raise(net.i)
           ELSE net' = [net EXCEPT !.pc = "down", !.x = x, !.encs = Append(net.encs, x)]

\* x = down(x), then the next (encoder, down) pair or the middle blocks
Down ==
    /\ UNCHANGED <<blk, res, gate, shuf>>
    /\ net.pc = "down"
    /\ LET d == downs[net.i]
           x == Conv2d(net.x, d.cin, d.cout, 2, 2, 0)
       IN  IF x = Err THEN Raise(net.i)
           ELSE IF net.i < Len(encoders) /\ net.i < Len(downs)
                THEN net' = [net EXCEPT !.pc = "encoder", !.x = x, !.i = net.i + 1]
                ELSE net' = [net EXCEPT !.pc = "middle", !.x = x]

\* encs consumed in recording order
skips_forward(encs) == encs

\* encs[::-1]
skips(encs) == Reverse(encs)

\* x = self.middle_blks(x), then the decoder loop over zip(decoders, ups, encs[::-1])
Middle ==
    /\ UNCHANGED <<blk, res, gate, shuf>>
    /\ net.pc = "middle"
    /\ LET x == NAFSeq(net.x, middle_blk_num, middle_chan)
       IN  IF x = Err THEN Raise(0)
           ELSE IF Len(decoders) >= 1 /\ Len(skips(net.encs)) >= 1
                THEN net' = [net EXCEPT !.pc = "up", !.x = x, !.i = 1]
                ELSE net' = [net EXCEPT !.pc = "ending", !.x = x]

\* x = up(x)
Up ==
    /\ UNCHANGED <<blk, res, gate, shuf>>
    /\ net.pc = "up"
    /\ LET u == ups[net.i]
           x == PixelShuffleShape(Conv2d(net.x, u.cin, u.cout, 1, 1, 0), 2)
       IN  IF x = Err THEN Raise(net.i)
           ELSE net' = [net EXCEPT !.pc = "skip", !.x = x]

\* x = x + enc_skip
Skip ==
    /\ UNCHANGED <<blk, res, gate, shuf>>
    /\ net.pc = "skip"
    /\ LET x == Broadcast(net.x, skips(net.encs)[net.i])
       IN  IF x = Err THEN Raise(net.i)
           ELSE net' = [net EXCEPT !.pc = "decoder", !.x = x]

\* x = decoder(x), then the next decoder iteration or the ending
Decoder ==
    /\ UNCHANGED <<blk, res, gate, shuf>>
    /\ net.pc = "decoder"
    /\ LET d == decoders[net.i]
           x == NAFSeq(net.x, d.num, d.chan)
       IN  IF x = Err THEN Raise(net.i)
           ELSE IF net.i < Len(decoders) /\ net.i < Len(skips(net.encs))
                THEN net' = [net EXCEPT !.pc = "up", !.x = x, !.i = net.i + 1]
                ELSE net' = [net EXCEPT !.pc = "ending", !.x = x]

\* x = self.ending(x)
Ending ==
    /\ UNCHANGED <<blk, res, gate, shuf>>
    /\ net.pc = "ending"
    /\ LET x == Conv2d(net.x, width, net.img_channel, 3, 1, 1)
       IN  IF x = Err THEN Raise(0)
           ELSE net' = [net EXCEPT !.pc = "residual", !.x = x]

\* x = x + inp; return x[:, :, :H, :W]
Return ==
    /\ UNCHANGED <<blk, res, gate, shuf>>
    /\ net.pc = "residual"
    /\ LET x == AddInput(net.x, net.inp)
       IN  IF x = Err THEN Raise(0)
           ELSE net' = [net EXCEPT !.pc = "done", !.x = x.shape, !.ret = Crop(x, net.H, net.W)]

Init == NetInit /\ blk = Idle /\ res = Idle /\ gate = Idle /\ shuf = Idle

Next ==
    \/ CheckImageSize
    \/ Intro
    \/ Encoder
    \/ Down
    \/ Middle
    \/ Up
    \/ Skip
    \/ Decoder
    \/ Ending
    \/ Return

Spec == Init /\ [][Next]_vars

(* ------------------- properties of CascadedGaze.forward ---------------- *)
Identity(n) == [k \in 1..n |-> k]

Padded == net.pc # "start"

\* the rows / columns check_image_size appended to the input
AppendedRows == (net.H + 1)..Len(net.inp.rows)
AppendedCols == (net.W + 1)..Len(net.inp.cols)

\* C1: whenever forward returns, the result has the input's shape (B, C, H, W),
\* the slice dropped exactly the appended (bottom / right, constant) rows and
\* columns, and output position (i, j) carries input position (i, j).
C1_CropRestoresInput ==
    net.pc = "done" =>
        /\ net.ret.shape = <<net.B, net.C, net.H, net.W>>
        /\ net.ret.rows = Identity(net.H)
        /\ net.ret.cols = Identity(net.W)
        /\ SubSeq(net.inp.rows, 1, net.H) = Identity(net.H)
        /\ SubSeq(net.inp.cols, 1, net.W) = Identity(net.W)
        /\ \A i \in AppendedRows : net.inp.rows[i] = 0
        /\ \A j \in AppendedCols : net.inp.cols[j] = 0

C1_Witness ==
    /\ net.pc = "done"
    /\ Len(net.inp.rows) > net.H
    /\ Len(net.inp.cols) > net.W
    /\ net.H # net.W

SmallestMultipleOf16(p, s) ==
    /\ p % 16 = 0
    /\ p >= s
    /\ \A m \in s..(p - 1) : m % 16 # 0

\* C2: check_image_size returns the smallest multiples of padder_size = 16 that
\* are >= h and >= w; the added amount is in 0..15 and is 0 exactly when the
\* dimension is already a multiple of 16.
C2_PadToMultiple ==
    /\ padder_size = 16
    /\ padder_size = Pow2(Len(enc_blk_nums))
    /\ Padded =>
        /\ SmallestMultipleOf16(net.inp.shape[3], net.H)
        /\ SmallestMultipleOf16(net.inp.shape[4], net.W)
        /\ net.inp.shape[3] - net.H \in 0..(padder_size - 1)
        /\ net.inp.shape[4] - net.W \in 0..(padder_size - 1)
        /\ (net.inp.shape[3] = net.H) <=> (net.H % padder_size = 0)
        /\ (net.inp.shape[4] = net.W) <=> (net.W % padder_size = 0)
        /\ Len(net.inp.rows) = net.inp.shape[3]
        /\ Len(net.inp.cols) = net.inp.shape[4]
        /\ net.inp.shape[1] = net.B /\ net.inp.shape[2] = net.C

C2_Witness ==
    /\ net.pc = "intro"
    /\ net.H % 16 = 0
    /\ net.inp.shape[3] = net.H
    /\ net.W % 16 # 0
    /\ net.inp.shape[4] > net.W

\* C3 as stated: every appended row and column is a copy of an input row or
\* column (mirrored across the border), not a constant fill.
C3_ReflectionPadding ==
    Padded =>
        /\ \A i \in AppendedRows : net.inp.rows[i] \in 1..net.H
        /\ \A j \in AppendedCols : net.inp.cols[j] \in 1..net.W

\* C3 amended: every appended row and column holds the constant fill (0), so
\* every appended element is the fill value and none is a copy of an input element.
C3_ConstantPadding ==
    Padded =>
        /\ \A i \in AppendedRows : net.inp.rows[i] = 0
        /\ \A j \in AppendedCols : net.inp.cols[j] = 0
        /\ SubSeq(net.inp.rows, 1, net.H) = Identity(net.H)
        /\ SubSeq(net.inp.cols, 1, net.W) = Identity(net.W)

C3_Witness ==
    /\ net.pc = "intro"
    /\ AppendedRows # {}
    /\ AppendedCols # {}
    /\ net.H >= 2 /\ net.W >= 2

\* C4: encoder outputs are recorded in stage order and consumed last-in
\* first-out: at the addition of decoder stage j = i - 1 the skip tensor is the
\* output of encoder stage 3 - j and has exactly the upsampled tensor's shape,
\* width * 2^(3-j) channels at padded size / 2^(3-j); after the last decoder the
\* tensor has width channels at the padded size, and the ending convolution's
\* output has the padded input's shape.
C4_SkipsMatch ==
    /\ net.pc = "down" => Len(net.encs) = net.i /\ net.encs[net.i] = net.x
    /\ net.pc = "skip" =>
        LET st == Len(enc_blk_nums) - net.i
            skip == skips(net.encs)[net.i]
        IN  /\ Len(net.encs) = Len(enc_blk_nums)
            /\ skip = net.encs[st + 1]
            /\ net.x = skip
            /\ net.x = <<net.B, width * Pow2(st),
                         net.inp.shape[3] \div Pow2(st), net.inp.shape[4] \div Pow2(st)>>
            /\ net.inp.shape[3] % Pow2(st) = 0
            /\ net.inp.shape[4] % Pow2(st) = 0
    /\ net.pc = "ending" =>
        net.x = <<net.B, width, net.inp.shape[3], net.inp.shape[4]>>
    /\ net.pc = "residual" => net.x = net.inp.shape

C4_Witness ==
    /\ net.pc = "skip"
    /\ net.i = 2
    /\ net.x[2] = 240
    /\ net.x[3] = 16 /\ net.x[4] = 20

\* every strided convolution of the stage's GlobalContextExtractor gets a
\* feature map at least as large as its kernel
GCEFits(x, c, GCE_Conv) ==
    LET outs == GCEForward(GCEInput(BlockStem(x, c)), c,
                           GCE_kernel_sizes(GCE_Conv), GCE_strides(GCE_Conv))
    IN  /\ Len(outs) = Len(GCE_kernel_sizes(GCE_Conv))
        /\ \A k \in 1..Len(outs) : outs[k] # Err

ValidInput == net.C = net.img_channel

\* C9 as stated: for every input with H, W >= 1 (and the channel count the
\* network was built for) forward never raises.
C9_AlwaysCompletes == ValidInput => net.pc # "error"

\* C9 amended: for every input with H >= 49 and W >= 49 (padded height and
\* width >= 64) forward never raises and every GlobalContextExtractor
\* convolution fits at every encoder stage; an input with H <= 48 or W <= 48
\* never gets past the encoder stages.
C9_CompletesFrom49 ==
    /\ (ValidInput /\ net.H >= 49 /\ net.W >= 49) =>
        /\ net.pc # "error"
        /\ net.pc = "encoder" =>
            GCEFits(net.x, encoders[net.i].chan, encoders[net.i].GCE_Conv)
    /\ net.pc \in {"middle", "done"} => net.H >= 49 /\ net.W >= 49

C9_Witness ==
    /\ net.pc = "done"
    /\ net.H = 49
    /\ net.W >= 49

(* ===================== CascadedGazeBlock.forward ======================= *)
MaxBlockC == 2
MaxGCEConv == 3
MaxSide == 33

\* CascadedGazeBlock(c, GCE_Conv) applied to an input of shape (b, c, h, w)
BlkInit ==
    \E c \in 1..MaxBlockC, g \in 1..MaxGCEConv, b \in 1..MaxB,
       h \in 1..MaxSide, w \in 1..MaxSide :
        blk = [pc |-> "stem", c |-> c, GCE_Conv |-> g, inp |-> <<b, c, h, w>>,
               x |-> <<b, c, h, w>>, h |-> h, w |-> w, gin |-> <<>>, gx |-> <<>>,
               outputs |-> <<>>, k |-> 0, y |-> <<>>, ret |-> <<>>]

BlkRaise == blk' = [blk EXCEPT !.pc = "error"]

\* every convolution applied to the extractor's input: outputs.append(gelu(conv(x)))
GCELoopBody_parallel(x, outputs, c, kernel_size, stride) ==
    [x |-> x, outputs |-> Append(outputs, GCEStep(x, c, kernel_size, stride))]

\* body of the loop of GlobalContextExtractor.forward:
\* x = gelu(conv(x)); outputs.append(x)
GCELoopBody(x, outputs, c, kernel_size, stride) ==
    LET y == GCEStep(x, c, kernel_size, stride)
    IN  [x |-> y, outputs |-> Append(outputs, y)]

\* number of convolutions in self.depthwise_separable_convs (zip of the two lists)
GCENumConvs(GCE_Conv) ==
    IF Len(GCE_kernel_sizes(GCE_Conv)) <= Len(GCE_strides(GCE_Conv))
    THEN Len(GCE_kernel_sizes(GCE_Conv)) ELSE Len(GCE_strides(GCE_Conv))

\* b, c, h, w = x.shape; x = gelu(conv2(conv1(norm1(x))))
BlkStem ==
    /\ UNCHANGED <<net, res, gate, shuf>>
    /\ blk.pc = "stem"
    /\ LET x == BlockStem(blk.x, blk.c)
       IN  IF x = Err THEN BlkRaise
           ELSE blk' = [blk EXCEPT !.pc = "chunk", !.x = x]

\* x_1, x_2 = x.chunk(2, dim=1); self.GCE(x_1 + x_2) is entered
BlkChunk ==
    /\ UNCHANGED <<net, res, gate, shuf>>
    /\ blk.pc = "chunk"
    /\ LET g == GCEInput(blk.x)
       IN  IF g = Err THEN BlkRaise
           ELSE blk' = [blk EXCEPT !.pc = "gce", !.gin = g, !.gx = g, !.outputs = <<>>, !.k = 1]

\* one iteration of the loop over self.depthwise_separable_convs
BlkGCEConv ==
    /\ UNCHANGED <<net, res, gate, shuf>>
    /\ blk.pc = "gce"
    /\ blk.k <= GCENumConvs(blk.GCE_Conv)
    /\ LET r == GCELoopBody(blk.gx, blk.outputs, blk.c,
                            GCE_kernel_sizes(blk.GCE_Conv)[blk.k], GCE_strides(blk.GCE_Conv)[blk.k])
       IN  IF \E n \in 1..Len(r.outputs) : r.outputs[n] = Err THEN BlkRaise
           ELSE blk' = [blk EXCEPT !.gx = r.x, !.outputs = r.outputs, !.k = blk.k + 1]

\* return outputs; x = torch.cat([x, upsample(x1), upsample(x2) (, upsample(x3))], dim=1)
BlkFuse ==
    /\ UNCHANGED <<net, res, gate, shuf>>
    /\ blk.pc = "gce"
    /\ blk.k > GCENumConvs(blk.GCE_Conv)
    /\ LET x == RangeFusion(blk.x, blk.outputs, blk.GCE_Conv, blk.h, blk.w)
       IN  IF x = Err THEN BlkRaise
           ELSE blk' = [blk EXCEPT !.pc = "attend", !.x = x]

\* x = self.sca(x) * x; x = self.project_out(x); x = self.dropout1(x)
BlkAttend ==
    /\ UNCHANGED <<net, res, gate, shuf>>
    /\ blk.pc = "attend"
    /\ LET x == AttendProject(blk.x, blk.c, blk.GCE_Conv)
       IN  IF x = Err THEN BlkRaise
           ELSE blk' = [blk EXCEPT !.pc = "beta", !.x = x]

\* y = inp + x * self.beta
BlkBeta ==
    /\ UNCHANGED <<net, res, gate, shuf>>
    /\ blk.pc = "beta"
    /\ LET y == ScaledResidual(blk.inp, blk.x, blk.c)
       IN  IF y = Err THEN BlkRaise
           ELSE blk' = [blk EXCEPT !.pc = "ffn", !.y = y]

\* x = self.conv5(self.sg(self.conv4(self.norm2(y)))); x = self.dropout2(x)
BlkFFN ==
    /\ UNCHANGED <<net, res, gate, shuf>>
    /\ blk.pc = "ffn"
    /\ LET x == FFN(blk.y, blk.c)
       IN  IF x = Err THEN BlkRaise
           ELSE blk' = [blk EXCEPT !.pc = "gamma", !.x = x]

\* return y + x * self.gamma
BlkGamma ==
    /\ UNCHANGED <<net, res, gate, shuf>>
    /\ blk.pc = "gamma"
    /\ LET r == ScaledResidual(blk.y, blk.x, blk.c)
       IN  IF r = Err THEN BlkRaise
           ELSE blk' = [blk EXCEPT !.pc = "done", !.ret = r]

InitBlock == BlkInit /\ net = Idle /\ res = Idle /\ gate = Idle /\ shuf = Idle

NextBlock ==
    \/ BlkStem
    \/ BlkChunk
    \/ BlkGCEConv
    \/ BlkFuse
    \/ BlkAttend
    \/ BlkBeta
    \/ BlkFFN
    \/ BlkGamma

SpecBlock == InitBlock /\ [][NextBlock]_vars

\* the step-by-step forward agrees with the composed shape function the
\* encoder stages use
BlockStepsAgree ==
    /\ blk.pc = "done" => blk.ret = CascadedGazeBlock(blk.inp, blk.c, blk.GCE_Conv)
    /\ blk.pc = "error" => CascadedGazeBlock(blk.inp, blk.c, blk.GCE_Conv) = Err
    /\ (blk.pc = "gce" /\ blk.k > GCENumConvs(blk.GCE_Conv)) =>
        blk.outputs = GCEForward(blk.gin, blk.c, GCE_kernel_sizes(blk.GCE_Conv),
                                 GCE_strides(blk.GCE_Conv))

\* the tensor convolution n of the extractor was applied to
GCEPrev(n) == IF n = 1 THEN blk.gin ELSE blk.outputs[n - 1]

\* C6: the extractor applies its convolutions one after the other: convolution
\* n >= 2 reads the output of convolution n - 1, the list holds one entry per
\* convolution applied, in order, every entry has c channels, and entry n has
\* spatial size floor((s - k_n) / stride_n) + 1 of its predecessor's size s, so
\* sizes never increase along the list.
C6_GCESequential ==
    blk.pc \in {"gce", "attend", "beta", "ffn", "gamma", "done"} =>
        /\ Len(blk.outputs) = blk.k - 1
        /\ blk.pc # "gce" => Len(blk.outputs) = GCENumConvs(blk.GCE_Conv)
        /\ blk.gx = (IF blk.k = 1 THEN blk.gin ELSE blk.outputs[blk.k - 1])
        /\ \A n \in 1..Len(blk.outputs) :
            LET kn == GCE_kernel_sizes(blk.GCE_Conv)[n]
                sn == GCE_strides(blk.GCE_Conv)[n]
                p == GCEPrev(n)
                o == blk.outputs[n]
            IN  /\ o[1] = p[1]
                /\ o[2] = blk.c
                /\ o[3] = ((p[3] - kn) \div sn) + 1
                /\ o[4] = ((p[4] - kn) \div sn) + 1
                /\ o[3] <= p[3] /\ o[4] <= p[4]
                /\ o[3] >= 1 /\ o[4] >= 1

C6_Witness ==
    /\ blk.pc = "done"
    /\ blk.GCE_Conv = 3
    /\ Len(blk.outputs) = 3
    /\ blk.outputs[1][3] = 16 /\ blk.outputs[2][3] = 4 /\ blk.outputs[3][3] = 1
    /\ blk.outputs[1][4] = 16
    /\ blk.inp[3] # blk.inp[4]

\* C10: with DW_Expand = 2 the tensor fed to the extractor has exactly c
\* channels, and the concatenation of x with the upsampled extractor outputs has
\* exactly the in_channels of sca's convolution and of project_out (5c when
\* GCE_Conv = 3, 4c otherwise) at the block input's (h, w).
C10_ChannelsConsistent ==
    /\ DW_Expand = 2
    /\ (blk.pc = "gce" /\ blk.k = 1) =>
        /\ blk.x[2] = 2 * blk.c
        /\ blk.gin = <<blk.inp[1], blk.c, blk.inp[3], blk.inp[4]>>
    /\ blk.pc = "attend" =>
        /\ blk.x[2] = fused_channels(blk.c, blk.GCE_Conv)
        /\ blk.x[2] = (IF blk.GCE_Conv = 3 THEN 5 * blk.c ELSE 4 * blk.c)
        /\ blk.x[1] = blk.inp[1] /\ blk.x[3] = blk.inp[3] /\ blk.x[4] = blk.inp[4]
        /\ \A n \in 1..Len(blk.outputs) :
            Upsample(blk.outputs[n], blk.h, blk.w) = <<blk.inp[1], blk.c, blk.inp[3], blk.inp[4]>>
    /\ blk.pc = "beta" => blk.x = blk.inp

C10_Witness ==
    /\ blk.pc = "beta"
    /\ blk.GCE_Conv = 3
    /\ blk.c = 2
    /\ blk.h # blk.w

C10_WitnessOther ==
    /\ blk.pc = "beta"
    /\ blk.GCE_Conv # 3

(* ============== residual scaling of the two blocks (values) ============ *)
\* One value per channel (the element at one batch index and one spatial
\* position; beta and gamma, of shape (1, c, 1, 1), act per channel).  A value
\* is a floating-point number: finite, an infinity (v = 1 or -1) or NaN.
MaxResC == 1
MaxResSide == 1

Fin(n) == [fin |-> TRUE, v |-> n]
NaN == [fin |-> FALSE, v |-> 0]
PInf == [fin |-> FALSE, v |-> 1]

Sign(n) == IF n > 0 THEN 1 ELSE IF n < 0 THEN -1 ELSE 0

\* a * b in floating point
FMul(a, b) ==
    IF a = NaN \/ b = NaN THEN NaN
    ELSE IF a.fin /\ b.fin THEN Fin(a.v * b.v)
    ELSE IF Sign(a.v) * Sign(b.v) = 0 THEN NaN
    ELSE [fin |-> FALSE, v |-> Sign(a.v) * Sign(b.v)]

\* a + b in floating point
FAdd(a, b) ==
    IF a = NaN \/ b = NaN THEN NaN
    ELSE IF a.fin /\ b.fin THEN Fin(a.v + b.v)
    ELSE IF ~a.fin /\ ~b.fin THEN (IF a.v = b.v THEN a ELSE NaN)
    ELSE IF a.fin THEN b ELSE a

FiniteVals == {Fin(0), Fin(2)}
FloatVals == FiniteVals \cup {NaN, PInf}
ParamVals == {Fin(0), Fin(1)}
BlockKinds == {"CascadedGazeBlock", "NAFBlock0"}

\* torch.zeros((1, c, 1, 1))
ZerosParam(c) == [k \in 1..c |-> Fin(0)]

\* y + x, without the scale
ScaledAdd_unscaled(y, x, scale) == [k \in 1..Len(y) |-> FAdd(y[k], x[k])]

\* y + x * scale, per channel
ScaledAdd(y, x, scale) == [k \in 1..Len(y) |-> FAdd(y[k], FMul(x[k], scale[k]))]

\* the block as constructed: beta and gamma are zero
ResInit ==
    \E kind \in BlockKinds, c \in 1..MaxResC :
        res = [pc |-> "built", kind |-> kind, c |-> c,
               beta |-> ZerosParam(c), gamma |-> ZerosParam(c),
               shape |-> <<>>, inp |-> <<>>, xb |-> <<>>, y |-> <<>>, xf |-> <<>>,
               ret |-> <<>>, retshape |-> <<>>]

\* beta and gamma are learned: training (or loading weights) may set them
ResLearn ==
    /\ UNCHANGED <<net, blk, gate, shuf>>
    /\ res.pc = "built"
    /\ \E be \in [1..res.c -> ParamVals], ga \in [1..res.c -> ParamVals] :
        res' = [res EXCEPT !.pc = "ready", !.beta = be, !.gamma = ga]

\* forward(inp) is called; the first sub-block (norm1 .. dropout1) yields x
ResBranch ==
    /\ UNCHANGED <<net, blk, gate, shuf>>
    /\ res.pc \in {"built", "ready"}
    /\ \E h \in 1..MaxResSide, w \in 1..MaxResSide,
          inp \in [1..res.c -> FiniteVals], x \in [1..res.c -> FloatVals] :
        res' = [res EXCEPT !.pc = "beta", !.shape = <<1, res.c, h, w>>, !.inp = inp, !.xb = x]

\* y = inp + x * self.beta
ResBeta ==
    /\ UNCHANGED <<net, blk, gate, shuf>>
    /\ res.pc = "beta"
    /\ res' = [res EXCEPT !.pc = "ffn", !.y = ScaledAdd(res.inp, res.xb, res.beta)]

\* x = dropout2(conv5(sg(conv4(norm2(y)))))
ResFFN ==
    /\ UNCHANGED <<net, blk, gate, shuf>>
    /\ res.pc = "ffn"
    /\ \E x \in [1..res.c -> FloatVals] :
        res' = [res EXCEPT !.pc = "gamma", !.xf = x]

\* return y + x * self.gamma
ResGamma ==
    /\ UNCHANGED <<net, blk, gate, shuf>>
    /\ res.pc = "gamma"
    /\ res' = [res EXCEPT !.pc = "done", !.ret = ScaledAdd(res.y, res.xf, res.gamma),
                          !.retshape = ScaledResidual(ScaledResidual(res.shape, res.shape, res.c),
                                                      res.shape, res.c)]

InitResidual == ResInit /\ net = Idle /\ blk = Idle /\ gate = Idle /\ shuf = Idle

NextResidual ==
    \/ ResLearn
    \/ ResBranch
    \/ ResBeta
    \/ ResFFN
    \/ ResGamma

SpecResidual == InitResidual /\ [][NextResidual]_vars

AllZero(p) == \A k \in 1..Len(p) : p[k] = Fin(0)
AllFinite(x) == \A k \in 1..Len(x) : x[k].fin

\* C7: both blocks return y + ffn(y) * gamma with y = inp + branch(inp) * beta,
\* of the shape of inp; when beta and gamma are all zero and the branch values
\* are finite, the output equals inp element for element.
C7_ResidualScale ==
    res.pc = "done" =>
        /\ res.retshape = res.shape
        /\ Len(res.ret) = Len(res.inp)
        /\ \A k \in 1..res.c :
            /\ res.y[k] = FAdd(res.inp[k], FMul(res.xb[k], res.beta[k]))
            /\ res.ret[k] = FAdd(res.y[k], FMul(res.xf[k], res.gamma[k]))
        /\ (AllZero(res.beta) /\ AllZero(res.gamma) /\ AllFinite(res.xb) /\ AllFinite(res.xf)) =>
            res.ret = res.inp

C7_Witness ==
    /\ res.pc = "done"
    /\ AllZero(res.beta) /\ AllZero(res.gamma)
    /\ AllFinite(res.xb) /\ AllFinite(res.xf)
    /\ res.xb[1] # Fin(0) /\ res.xf[1] # Fin(0)
    /\ res.ret = res.inp

\* with a non-finite branch value the zero scale does not cancel it
C7_WitnessNonFinite ==
    /\ res.pc = "done"
    /\ AllZero(res.beta) /\ AllZero(res.gamma)
    /\ res.ret # res.inp

(* ========================= SimpleGate.forward ========================== *)
\* A tensor is its shape and one value per channel (the element at one batch
\* index and one spatial position).
MaxGateC == 4
MaxGateSide == 2

GateVals == {1, 2, 3}

\* the channels of chunk n of x.chunk(2, dim=1)
ChunkOf(t, n) ==
    LET cs == ChunkSizes(t.shape[2])
        off == IF n = 1 THEN 0 ELSE cs[1]
    IN  [k \in 1..cs[n] |-> t.ch[off + k]]

\* a * b along the channel axis, with broadcasting
MulCh(a, b) ==
    [k \in 1..BDim(Len(a), Len(b)) |->
        a[IF Len(a) = 1 THEN 1 ELSE k] * b[IF Len(b) = 1 THEN 1 ELSE k]]

\* channel k paired with channel C - 1 - k
SimpleGate_mirrored(t) ==
    IF SimpleGateShape(t.shape) = Err THEN Err
    ELSE [shape |-> SimpleGateShape(t.shape),
          ch |-> [k \in 1..SimpleGateShape(t.shape)[2] |-> t.ch[k] * t.ch[Len(t.ch) + 1 - k]]]

\* SimpleGate.forward: x1, x2 = x.chunk(2, dim=1); return x1 * x2
SimpleGate(t) ==
    IF SimpleGateShape(t.shape) = Err THEN Err
    ELSE [shape |-> SimpleGateShape(t.shape), ch |-> MulCh(ChunkOf(t, 1), ChunkOf(t, 2))]

GateInit ==
    \E b \in 1..MaxB, C \in 1..MaxGateC, h \in 1..MaxGateSide, w \in 1..MaxGateSide :
        \E ch \in [1..C -> GateVals] :
            gate = [pc |-> "call", x |-> [shape |-> <<b, C, h, w>>, ch |-> ch], ret |-> <<>>]

SgForward ==
    /\ UNCHANGED <<net, blk, res, shuf>>
    /\ gate.pc = "call"
    /\ IF SimpleGate(gate.x) = Err
       THEN gate' = [gate EXCEPT !.pc = "error"]
       ELSE gate' = [gate EXCEPT !.pc = "done", !.ret = SimpleGate(gate.x)]

InitGate == GateInit /\ net = Idle /\ blk = Idle /\ res = Idle /\ shuf = Idle

NextGate == SgForward

SpecGate == InitGate /\ [][NextGate]_vars

EvenChannels == gate.x.shape[2] % 2 = 0

\* C5: for an even channel count C the gate returns C/2 channels at the same
\* batch, height and width, and output channel k is input channel k times input
\* channel k + C/2.
C5_SplitAndMultiply ==
    (gate.pc # "call" /\ EvenChannels) =>
        LET half == gate.x.shape[2] \div 2
        IN  /\ gate.pc = "done"
            /\ gate.ret.shape = <<gate.x.shape[1], half, gate.x.shape[3], gate.x.shape[4]>>
            /\ Len(gate.ret.ch) = half
            /\ \A k \in 1..half : gate.ret.ch[k] = gate.x.ch[k] * gate.x.ch[k + half]

C5_Witness ==
    /\ gate.pc = "done"
    /\ gate.x.shape[2] = 4
    /\ gate.x.ch = <<1, 2, 3, 3>>
    /\ gate.ret.ch = <<3, 6>>

(* ====================== CustomPixelShuffle.forward ===================== *)
\* A tensor is its shape (of any rank) and its elements in row-major order;
\* indices are 0-based as in the source, flat[n + 1] is the element at offset n.
MaxShufC == 8
MaxShufSide == 2
MaxFactor == 2

RECURSIVE Numel(_)
Numel(shape) == IF Len(shape) = 0 THEN 1 ELSE shape[1] * Numel(Tail(shape))

\* row-major offset of the multi-index idx in a tensor of this shape
RECURSIVE Ravel(_, _)
Ravel(shape, idx) ==
    IF Len(shape) = 0 THEN 0
    ELSE idx[1] * Numel(Tail(shape)) + Ravel(Tail(shape), Tail(idx))

\* the multi-index of row-major offset n
RECURSIVE Unravel(_, _)
Unravel(shape, n) ==
    IF Len(shape) = 0 THEN <<>>
    ELSE <<n \div Numel(Tail(shape))>> \o Unravel(Tail(shape), n % Numel(Tail(shape)))

At(t, idx) == t.flat[Ravel(t.shape, idx) + 1]

\* x.reshape(shape)
Reshape(t, shape) ==
    IF t = Err THEN Err
    ELSE IF Numel(shape) # Numel(t.shape) THEN Err
    ELSE [shape |-> shape, flat |-> t.flat]

\* x.permute(dims), dims 1-based here: axis d of the result is axis dims[d] of x
Permute(t, dims) ==
    IF t = Err THEN Err
    ELSE LET ns == [d \in 1..Len(dims) |-> t.shape[dims[d]]]
             src(o) == [a \in 1..Len(dims) |-> o[CHOOSE d \in 1..Len(dims) : dims[d] = a]]
         IN  [shape |-> ns,
              flat |-> [m \in 1..Numel(ns) |-> At(t, src(Unravel(ns, m - 1)))]]

\* tmp.permute([0, 1, 4, 3, 5, 2])
shuffle_dims_swapped == <<1, 2, 5, 4, 6, 3>>

\* tmp.permute([0, 1, 4, 2, 5, 3])
shuffle_dims == <<1, 2, 5, 3, 6, 4>>

\* the input tensor: the element at offset n is labelled n
Labelled(shape) == [shape |-> shape, flat |-> [m \in 1..Numel(shape) |-> m - 1]]

ShufInit ==
    \E r \in 1..MaxFactor, b \in 1..MaxB, c \in 1..MaxShufC,
       h \in 1..MaxShufSide, w \in 1..MaxShufSide :
        shuf = [pc |-> "reshape", blocksize |-> r, x |-> Labelled(<<b, c, h, w>>),
                tmp |-> <<>>, y |-> <<>>]

\* tmp = x.reshape([b, c // (blocksize ** 2), blocksize, blocksize, h, w])
ShufReshape ==
    /\ UNCHANGED <<net, blk, res, gate>>
    /\ shuf.pc = "reshape"
    /\ LET s == shuf.x.shape
           r == shuf.blocksize
           t == Reshape(shuf.x, <<s[1], s[2] \div (r * r), r, r, s[3], s[4]>>)
       IN  IF t = Err THEN shuf' = [shuf EXCEPT !.pc = "error"]
           ELSE shuf' = [shuf EXCEPT !.pc = "permute", !.tmp = t]

\* tmp = tmp.permute([0, 1, 4, 2, 5, 3])
ShufPermute ==
    /\ UNCHANGED <<net, blk, res, gate>>
    /\ shuf.pc = "permute"
    /\ shuf' = [shuf EXCEPT !.pc = "flatten", !.tmp = Permute(shuf.tmp, shuffle_dims)]

\* y = tmp.reshape([b, c // (blocksize ** 2), h * blocksize, w * blocksize]); return y
ShufFlatten ==
    /\ UNCHANGED <<net, blk, res, gate>>
    /\ shuf.pc = "flatten"
    /\ LET s == shuf.x.shape
           r == shuf.blocksize
           t == Reshape(shuf.tmp, <<s[1], s[2] \div (r * r), s[3] * r, s[4] * r>>)
       IN  IF t = Err THEN shuf' = [shuf EXCEPT !.pc = "error"]
           ELSE shuf' = [shuf EXCEPT !.pc = "done", !.y = t]

InitShuffle == ShufInit /\ net = Idle /\ blk = Idle /\ res = Idle /\ gate = Idle

NextShuffle ==
    \/ ShufReshape
    \/ ShufPermute
    \/ ShufFlatten

SpecShuffle == InitShuffle /\ [][NextShuffle]_vars

Elements(t) == {t.flat[m] : m \in 1..Len(t.flat)}

\* C8: for c divisible by r*r the result has shape (b, c/(r*r), h*r, w*r),
\* output[n, k, y*r + i, x*r + j] = input[n, k*r*r + i*r + j, y, x], and every
\* input element appears exactly once in the output.
C8_PixelShuffle ==
    LET s == shuf.x.shape
        r == shuf.blocksize
    IN  /\ (shuf.pc = "error") => s[2] % (r * r) # 0
        /\ (shuf.pc = "done") =>
            /\ s[2] % (r * r) = 0
            /\ shuf.y.shape = <<s[1], s[2] \div (r * r), s[3] * r, s[4] * r>>
            /\ \A n \in 0..(s[1] - 1), k \in 0..((s[2] \div (r * r)) - 1),
                  y \in 0..(s[3] - 1), x \in 0..(s[4] - 1),
                  i \in 0..(r - 1), j \in 0..(r - 1) :
                    At(shuf.y, <<n, k, y * r + i, x * r + j>>)
                        = At(shuf.x, <<n, k * r * r + i * r + j, y, x>>)
            /\ Len(shuf.y.flat) = Len(shuf.x.flat)
            /\ Elements(shuf.y) = Elements(shuf.x)
            /\ Cardinality(Elements(shuf.y)) = Len(shuf.y.flat)

C8_Witness ==
    /\ shuf.pc = "done"
    /\ shuf.blocksize = 2
    /\ shuf.x.shape = <<1, 8, 2, 2>>
    /\ shuf.y.shape = <<1, 2, 4, 4>>
    /\ shuf.y.flat # shuf.x.flat

====
